---- MODULE Spec2Model ----
(***************************************************************************)
(* The conversation aggregate of the conversation service: a Conversation  *)
(* (conversation.py) holding references to Message objects (message.py),   *)
(* with the exception taxonomy of exceptions.py.                           *)
(*                                                                         *)
(* Strings are sequences of one-character strings, so that str.strip()     *)
(* is computed and not assumed.  datetime.utcnow() reads the variable      *)
(* `now`, a clock that never runs backwards; time passes between calls     *)
(* (Tick) and between the two reads the Conversation constructor makes.    *)
(* Message objects live in `heap`; a Conversation's `messages` holds       *)
(* references (heap indices), as a Python list does.                       *)
(***************************************************************************)
EXTENDS Integers, Sequences, FiniteSets

VARIABLES
    now,          \* the reading datetime.utcnow() returns
    id,           \* Conversation.id
    title,        \* Conversation.title
    created_by,   \* Conversation.created_by
    created_at,   \* Conversation.created_at
    updated_at,   \* Conversation.updated_at
    is_archived,  \* Conversation.is_archived
    messages,     \* Conversation.messages: references into heap, in list order
    heap,         \* the Message objects constructed so far
    ret,          \* outcome of the last call: the exception raised, the value returned
    call,         \* history: the last call made and its arguments
    prev,         \* history: the aggregate's fields just before the last call
    addLog,       \* history: the arguments of the add_message calls that returned
    lastToggle,   \* history: the most recent of archive / unarchive
    events,       \* the domain events constructed and handed to the sink, in order
    repo,         \* the repository: conversation id -> the conversation saved
    tasks,        \* the service calls in flight: each one's position and locals
    applied,      \* history: the operations whose mutation was applied, in order
    opLog,        \* history: every service operation invoked and its outcome
    checks,       \* HealthCheck.checks: name -> check function, in insertion order
    health,       \* the check_health call: its position, locals and outcome
    regLog,       \* history: every register_check call made, in order
    poll          \* the polling script's run: its position, locals and exit code

fields == <<id, title, created_by, created_at, updated_at, is_archived, messages>>
aggregate == <<fields, heap, prev, addLog, lastToggle>>
orchestration == <<repo, tasks, applied, opLog>>
service == <<events, repo, tasks, applied, opLog>>
tooling == <<checks, health, regLog, poll>>
vars == <<now, id, title, created_by, created_at, updated_at, is_archived,
          messages, heap, ret, call, prev, addLog, lastToggle, events,
          repo, tasks, applied, opLog, checks, health, regLog, poll>>

-----------------------------------------------------------------------------
(* Bounds *)

MaxTime == 1
MaxObjects == 2
MaxMessages == 2
MaxEvents == 2
MaxOps == 2
MaxCalls == 3

(* Inputs *)

Whitespace == {" ", "\t", "\n"}
Titles == {<<>>, <<" ", "\t">>, <<" ", "T">>}
Contents == {<<>>, <<"\n", " ">>, <<"h", "i", " ">>}
Users == {"u1"}
\* limits below, at and above every length the list can have
Limits == (-(MaxMessages + 1))..(MaxMessages + 1)
\* Message(content, sender_id, message_type, conversation_id) argument tuples
MessageArgs == {<<<<"h", "i">>, "u1", "user", "c1">>}
ConvIds == {"c1", "c2"}
\* argument tuples of Message(...) that no caller is kept from passing
AnyMessageArgs == {<<<<"h", "i">>, "u1", "user", "c1">>, <<<<>>, "u2", "ai", "c2">>}
\* add_metadata(key, value) argument pairs
MetadataArgs == {<<"k1", 1>>, <<"k1", 2>>, <<"k2", 1>>}

-----------------------------------------------------------------------------
(* Python helpers *)

Min(a, b) == IF a <= b THEN a ELSE b
Max(a, b) == IF a >= b THEN a ELSE b

RECURSIVE lstrip(_)
lstrip(s) ==
    IF s = <<>> THEN <<>>
    ELSE IF Head(s) \in Whitespace THEN lstrip(Tail(s)) ELSE s

RECURSIVE rstrip(_)
rstrip(s) ==
    IF s = <<>> THEN <<>>
    ELSE IF s[Len(s)] \in Whitespace THEN rstrip(SubSeq(s, 1, Len(s) - 1)) ELSE s

strip(s) == rstrip(lstrip(s))

\* s[:limit + 1]: the slice taken one element too far
SliceTo_OffByOne(s, limit) ==
    IF limit + 1 >= 0 THEN SubSeq(s, 1, Min(limit + 1, Len(s)))
    ELSE SubSeq(s, 1, Max(Len(s) + limit + 1, 0))

\* s[:limit]
SliceTo(s, limit) ==
    IF limit >= 0 THEN SubSeq(s, 1, Min(limit, Len(s)))
    ELSE SubSeq(s, 1, Max(Len(s) + limit, 0))

\* sorted(..., reverse=True) is stable: an element goes after every element
\* whose key is greater than or equal to its own.
RECURSIVE InsertDesc(_, _, _)
InsertDesc(sorted, m, key) ==
    IF sorted = <<>> THEN <<m>>
    ELSE IF key[Head(sorted)] >= key[m]
         THEN <<Head(sorted)>> \o InsertDesc(Tail(sorted), m, key)
         ELSE <<m>> \o sorted

RECURSIVE SortedDesc(_, _)
SortedDesc(s, key) ==
    IF s = <<>> THEN <<>>
    ELSE InsertDesc(SortedDesc(SubSeq(s, 1, Len(s) - 1), key), s[Len(s)], key)

-----------------------------------------------------------------------------
(* exceptions.py *)

ExceptionBase ==
    [ DomainException |-> "Exception",
      ValidationError |-> "DomainException",
      EntityNotFoundError |-> "DomainException",
      PermissionError |-> "DomainException",
      BusinessRuleViolationError |-> "DomainException",
      RepositoryError |-> "DomainException",
      EventPublishingError |-> "DomainException",
      ValueError |-> "Exception" ]

IsDomainException(kind) ==
    /\ kind \in DOMAIN ExceptionBase
    /\ \/ kind = "DomainException"
       \/ ExceptionBase[kind] = "DomainException"

Returned(value) == [raised |-> "none", value |-> value]
Raised(kind) == [raised |-> kind, value |-> <<>>]
None == <<>>
\* a Python bool as a returned value
Bool(b) == [bool |-> b]

-----------------------------------------------------------------------------
(* message.py *)

MessageType == {"user", "ai", "system"}

EmptyDict == [k \in {} |-> None]

\* The dataclass constructor: no field is validated; id and timestamp come
\* from their default factories (a fresh id, one clock reading).
Message(content, sender_id, message_type, conversation_id) ==
    [ content |-> content,
      sender_id |-> sender_id,
      message_type |-> message_type,
      conversation_id |-> conversation_id,
      id |-> Len(heap) + 1,
      timestamp |-> now,
      metadata |-> EmptyDict ]

ContentRejected(new_content) ==
    \/ new_content = <<>>
    \/ strip(new_content) = <<>>

\* the assignment made before the check
update_content_AssignFirst(self, new_content) ==
    /\ heap' = [heap EXCEPT ![self].content = new_content]
    /\ ret' = IF ContentRejected(new_content) THEN Raised("ValueError") ELSE Returned(None)

update_content(self, new_content) ==
    IF ContentRejected(new_content)
    THEN /\ ret' = Raised("ValueError")
         /\ UNCHANGED heap
    ELSE /\ heap' = [heap EXCEPT ![self].content = new_content]
         /\ ret' = Returned(None)

\* metadata[key] = value on a dict
DictSet(d, key, value) ==
    [k \in (DOMAIN d) \cup {key} |-> IF k = key THEN value ELSE d[k]]

\* self.metadata = {key: value}: the dict replaced, its other keys lost
add_metadata_Replace(self, key, value) ==
    /\ heap' = [heap EXCEPT ![self].metadata = DictSet(EmptyDict, key, value)]
    /\ ret' = Returned(None)

add_metadata(self, key, value) ==
    /\ heap' = [heap EXCEPT ![self].metadata = DictSet(@, key, value)]
    /\ ret' = Returned(None)

-----------------------------------------------------------------------------
(* conversation_events.py: frozen dataclasses.  A field holds what the      *)
(* caller passed; MessageAdded.metadata holds a reference to a dict, or    *)
(* None.                                                                   *)

NoMetadata == [ref |-> "none", of |-> 0, dict |-> EmptyDict]
\* the dict object of heap[m].metadata itself
MetadataOf(m) == [ref |-> "message", of |-> m, dict |-> EmptyDict]
\* a dict object of the event's own
OwnMetadata(d) == [ref |-> "own", of |-> 0, dict |-> d]

ConversationCreated(event_id, conversation_id, timestamp, user_id, title_) ==
    [ kind |-> "ConversationCreated", event_id |-> event_id,
      conversation_id |-> conversation_id, timestamp |-> timestamp,
      user_id |-> user_id, title |-> title_ ]

\* the two titles in each other's place
ConversationTitleUpdated_Swapped(event_id, conversation_id, timestamp, user_id, new_title, old_title) ==
    [ kind |-> "ConversationTitleUpdated", event_id |-> event_id,
      conversation_id |-> conversation_id, timestamp |-> timestamp,
      user_id |-> user_id, new_title |-> old_title, old_title |-> new_title ]

ConversationTitleUpdated(event_id, conversation_id, timestamp, user_id, new_title, old_title) ==
    [ kind |-> "ConversationTitleUpdated", event_id |-> event_id,
      conversation_id |-> conversation_id, timestamp |-> timestamp,
      user_id |-> user_id, new_title |-> new_title, old_title |-> old_title ]

ConversationArchived(event_id, conversation_id, timestamp, user_id) ==
    [ kind |-> "ConversationArchived", event_id |-> event_id,
      conversation_id |-> conversation_id, timestamp |-> timestamp, user_id |-> user_id ]

ConversationUnarchived(event_id, conversation_id, timestamp, user_id) ==
    [ kind |-> "ConversationUnarchived", event_id |-> event_id,
      conversation_id |-> conversation_id, timestamp |-> timestamp, user_id |-> user_id ]

\* the record of an archival in place of the deletion's
ConversationDeleted_AsArchived(event_id, conversation_id, timestamp, user_id) ==
    [ kind |-> "ConversationArchived", event_id |-> event_id,
      conversation_id |-> conversation_id, timestamp |-> timestamp, user_id |-> user_id ]

ConversationDeleted(event_id, conversation_id, timestamp, user_id) ==
    [ kind |-> "ConversationDeleted", event_id |-> event_id,
      conversation_id |-> conversation_id, timestamp |-> timestamp, user_id |-> user_id ]

MessageAdded(event_id, conversation_id, timestamp, user_id, message_id, message_type, content, metadata) ==
    [ kind |-> "MessageAdded", event_id |-> event_id,
      conversation_id |-> conversation_id, timestamp |-> timestamp,
      user_id |-> user_id, message_id |-> message_id,
      message_type |-> message_type, content |-> content, metadata |-> metadata ]

\* the dict a metadata reference leads to
Deref(r) == IF r.ref = "message" THEN heap[r.of].metadata ELSE r.dict

\* what reading every field of the event gives
EventValue(e) ==
    IF e.kind = "MessageAdded"
    THEN [e EXCEPT !.metadata = [none |-> @.ref = "none", dict |-> Deref(@)]]
    ELSE e

EventValues == [i \in 1..Len(events) |-> EventValue(events[i])]

\* event.<name> = value: frozen=True makes __setattr__ raise
event_setattr(i, name, value) ==
    /\ ret' = Raised("FrozenInstanceError")
    /\ UNCHANGED <<events, heap>>

\* event.metadata[key] = value: an item assignment on the dict the field
\* refers to, which frozen=True does not intercept
event_metadata_setitem(i, key, value) ==
    IF events[i].metadata.ref = "none"
    THEN /\ ret' = Raised("TypeError")
         /\ UNCHANGED <<events, heap>>
    ELSE IF events[i].metadata.ref = "message"
    THEN /\ heap' = [heap EXCEPT ![events[i].metadata.of].metadata = DictSet(@, key, value)]
         /\ ret' = Returned(None)
         /\ UNCHANGED events
    ELSE /\ events' = [events EXCEPT ![i].metadata.dict = DictSet(@, key, value)]
         /\ ret' = Returned(None)
         /\ UNCHANGED heap

-----------------------------------------------------------------------------
(* conversation.py *)

\* the check without strip(): only the empty title is rejected
TitleRejected_NoStrip(new_title) == new_title = <<>>

TitleRejected(new_title) ==
    \/ new_title = <<>>
    \/ strip(new_title) = <<>>

\* messages.insert(0, message) in place of append
add_message_Prepend(message) ==
    /\ messages' = <<message>> \o messages
    /\ updated_at' = now
    /\ ret' = Returned(None)
    /\ UNCHANGED <<id, title, created_by, created_at, is_archived>>

\* a new message brings the conversation back from the archive
add_message_Unarchives(message) ==
    /\ messages' = Append(messages, message)
    /\ updated_at' = now
    /\ is_archived' = FALSE
    /\ ret' = Returned(None)
    /\ UNCHANGED <<id, title, created_by, created_at>>

add_message(message) ==
    /\ messages' = Append(messages, message)
    /\ updated_at' = now
    /\ ret' = Returned(None)
    /\ UNCHANGED <<id, title, created_by, created_at, is_archived>>

\* the title set without stamping updated_at
update_title_NoStamp(new_title) ==
    IF TitleRejected(new_title)
    THEN /\ ret' = Raised("ValueError")
         /\ UNCHANGED fields
    ELSE /\ title' = new_title
         /\ ret' = Returned(None)
         /\ UNCHANGED <<id, created_by, created_at, updated_at, is_archived, messages>>

update_title(new_title) ==
    IF TitleRejected(new_title)
    THEN /\ ret' = Raised("ValueError")
         /\ UNCHANGED fields
    ELSE /\ title' = new_title
         /\ updated_at' = now
         /\ ret' = Returned(None)
         /\ UNCHANGED <<id, created_by, created_at, is_archived, messages>>

\* archive as a no-op on a conversation that is already archived
archive_OnlyOnChange ==
    IF is_archived
    THEN /\ ret' = Returned(None)
         /\ UNCHANGED fields
    ELSE /\ is_archived' = TRUE
         /\ updated_at' = now
         /\ ret' = Returned(None)
         /\ UNCHANGED <<id, title, created_by, created_at, messages>>

archive ==
    /\ is_archived' = TRUE
    /\ updated_at' = now
    /\ ret' = Returned(None)
    /\ UNCHANGED <<id, title, created_by, created_at, messages>>

\* unarchive copied from archive with the flag left TRUE
unarchive_SetsTrue ==
    /\ is_archived' = TRUE
    /\ updated_at' = now
    /\ ret' = Returned(None)
    /\ UNCHANGED <<id, title, created_by, created_at, messages>>

unarchive ==
    /\ is_archived' = FALSE
    /\ updated_at' = now
    /\ ret' = Returned(None)
    /\ UNCHANGED <<id, title, created_by, created_at, messages>>

Timestamps == [m \in 1..Len(heap) |-> heap[m].timestamp]

\* self.messages.sort(...) in place of sorted(self.messages, ...)
get_latest_messages_SortInPlace(limit) ==
    /\ messages' = SortedDesc(messages, Timestamps)
    /\ ret' = Returned(SliceTo(messages', limit))
    /\ UNCHANGED <<id, title, created_by, created_at, updated_at, is_archived>>

\* sorted(self.messages[:limit], ...): the slice taken before the sort
get_latest_messages_SliceFirst(limit) ==
    /\ ret' = Returned(SortedDesc(SliceTo(messages, limit), Timestamps))
    /\ UNCHANGED fields

get_latest_messages(limit) ==
    /\ ret' = Returned(SliceTo(SortedDesc(messages, Timestamps), limit))
    /\ UNCHANGED fields

-----------------------------------------------------------------------------
(* conversation.py, on a conversation held as a value: what the service    *)
(* loads, changes and saves.                                               *)

NoConversation ==
    [ id |-> "", title |-> <<>>, created_by |-> "", created_at |-> 0,
      updated_at |-> 0, is_archived |-> FALSE, messages |-> <<>> ]

\* first and second are the two readings of the clock the field defaults make
Conversation(id_, title_, created_by_, first, second) ==
    [ id |-> id_, title |-> title_, created_by |-> created_by_,
      created_at |-> first, updated_at |-> second,
      is_archived |-> FALSE, messages |-> <<>> ]

Conversation_update_title(self, new_title) ==
    [self EXCEPT !.title = new_title, !.updated_at = now]

Conversation_add_message(self, message) ==
    [self EXCEPT !.messages = Append(@, message), !.updated_at = now]

-----------------------------------------------------------------------------
(* conversation_repository_interface.py: a store of conversations by id.  *)

\* a row is written only where there is none
save_InsertOnly(conversation) ==
    IF conversation.id \in DOMAIN repo THEN repo
    ELSE DictSet(repo, conversation.id, conversation)

\* the store keeps the messages it already holds of the conversation and adds
\* the saved one's new messages to them
save_Merge(conversation) ==
    IF conversation.id \in DOMAIN repo
    THEN LET old == repo[conversation.id].messages
             fresh == SelectSeq(conversation.messages,
                                LAMBDA m : \A i \in 1..Len(old) : old[i] # m)
         IN  DictSet(repo, conversation.id,
                     [conversation EXCEPT !.messages = old \o fresh])
    ELSE DictSet(repo, conversation.id, conversation)

\* the store holds the conversation saved last and no other
save_Replace(conversation) == DictSet(EmptyDict, conversation.id, conversation)

save(conversation) == DictSet(repo, conversation.id, conversation)

get_by_id(conversation_id) ==
    IF conversation_id \in DOMAIN repo THEN repo[conversation_id] ELSE NoConversation

\* the row kept
delete_Keep(conversation_id) == repo

delete(conversation_id) == [k \in (DOMAIN repo) \ {conversation_id} |-> repo[k]]

-----------------------------------------------------------------------------
(* conversation_service_interface.py: each mutating operation is a call    *)
(* that loads, mutates, persists, emits and returns, suspending between    *)
(* the steps.                                                              *)

Tasks == {"t1", "t2"}
ServiceTitles == {<<>>, <<"A">>, <<"B">>}
ServiceContents == {<<>>, <<"h", "i">>}

IdleTask ==
    [ pc |-> "idle", n |-> 0, op |-> "none", cid |-> "", hasTitle |-> FALSE,
      title |-> <<>>, content |-> <<>>, conv |-> NoConversation,
      old_title |-> <<>>, raised |-> "none", deleted |-> FALSE ]

Request(op, cid, hasTitle, title_, content) ==
    [op |-> op, cid |-> cid, hasTitle |-> hasTitle, title |-> title_, content |-> content]

\* the ids some operation has named or been given so far
UsedIds == {opLog[i].cid : i \in 1..Len(opLog)} \cup DOMAIN repo

\* create_conversation carries the id uuid4() gives the new conversation
Requests ==
    {Request("create_conversation", c, TRUE, t, <<>>) :
        c \in ConvIds \ UsedIds, t \in {<<>>, <<"A">>}}
    \cup {Request("update_conversation", c, TRUE, t, <<>>) : c \in ConvIds, t \in ServiceTitles}
    \cup {Request("update_conversation", c, FALSE, <<>>, <<>>) : c \in ConvIds}
    \cup {Request("delete_conversation", c, FALSE, <<>>, <<>>) : c \in ConvIds}
    \cup {Request("add_message", c, FALSE, <<>>, x) : c \in ConvIds, x \in ServiceContents}

\* a message whose timestamp is the bound is let through
get_messages_Inclusive(conversation, limit, hasBefore, before) ==
    LET found == SelectSeq(conversation.messages,
                           LAMBDA m : ~hasBefore \/ m.timestamp <= before)
    IN  SliceTo(SortedDesc(found, [m \in {found[i] : i \in 1..Len(found)} |-> m.timestamp]), limit)

\* the messages before the bound, latest first, cut at limit
get_messages(conversation, limit, hasBefore, before) ==
    LET found == SelectSeq(conversation.messages,
                           LAMBDA m : ~hasBefore \/ m.timestamp < before)
    IN  SliceTo(SortedDesc(found, [m \in {found[i] : i \in 1..Len(found)} |-> m.timestamp]), limit)

\* the calls are interchangeable: a new one takes the first that is free
FirstIdle(t) == t = "t1" \/ tasks["t1"].pc # "idle"

\* a call on the conversation has been invoked and has not returned
InFlight(cid) == \E t \in Tasks : tasks[t].pc # "idle" /\ tasks[t].cid = cid

\* the event put in front of the ones emitted before
emit_Prepend(event) == events' = <<event>> \o events

emit(event) == events' = Append(events, event)

\* goes on to emit whatever save did
after_save_Always(saved) == "emit"

after_save(saved) == IF saved THEN "emit" ELSE "return"

title_changed(hasTitle, new_title, old_title) == hasTitle /\ new_title # old_title

event_for(k) ==
    CASE k.op = "create_conversation" ->
            ConversationCreated(k.n, k.cid, now, k.conv.created_by, k.conv.title)
      [] k.op = "update_conversation" ->
            ConversationTitleUpdated(k.n, k.cid, now, k.conv.created_by,
                                     k.title, k.old_title)
      [] k.op = "delete_conversation" ->
            ConversationDeleted(k.n, k.cid, now, k.conv.created_by)
      [] k.op = "add_message" ->
            LET m == k.conv.messages[Len(k.conv.messages)]
            IN  MessageAdded(k.n, k.cid, now, m.sender_id, m.id, m.message_type,
                             m.content, OwnMetadata(m.metadata))

has_event(k) ==
    k.op = "update_conversation" => title_changed(k.hasTitle, k.title, k.old_title)

\* the write taken back
on_publish_failure_Rollback(k) == repo' = delete(k.cid)

on_publish_failure(k) == repo' = repo

-----------------------------------------------------------------------------
(* History *)

Call(op) ==
    [op |-> op, title |-> <<>>, message |-> 0, limit |-> 0, content |-> <<>>,
     key |-> "", value |-> 0, old |-> EmptyDict, event |-> 0,
     conversation_id |-> "", hasBefore |-> FALSE, before |-> 0,
     conversation |-> NoConversation]
Snapshot == [is_archived |-> is_archived, updated_at |-> updated_at]

-----------------------------------------------------------------------------
(* HealthCheck: a registry of named check functions and the call that runs *)
(* them and aggregates their statuses.                                     *)

UP == "up"
DOWN == "down"
DEGRADED == "degraded"

\* the names checks are registered under
CheckNames == {"db", "mq"}

\* the check functions, named after what awaiting them does: return a dict
\* with a status, return a dict without one, raise
CheckFuncs == {"returns_up", "returns_down", "returns_degraded", "returns_unknown",
               "returns_no_status", "raises_Exception", "raises_BaseException"}

\* what awaiting a check function gives
await_check(check_func) ==
    CASE check_func = "returns_up" -> [raised |-> "none", result |-> [status |-> UP]]
      [] check_func = "returns_down" ->
            [raised |-> "none", result |-> [status |-> DOWN, error |-> "refused"]]
      [] check_func = "returns_degraded" -> [raised |-> "none", result |-> [status |-> DEGRADED]]
      [] check_func = "returns_unknown" -> [raised |-> "none", result |-> [status |-> "unknown"]]
      [] check_func = "returns_no_status" -> [raised |-> "none", result |-> [statusCode |-> "200"]]
      [] check_func = "raises_Exception" -> [raised |-> "Exception", result |-> [error |-> "boom"]]
      [] check_func = "raises_BaseException" ->
            [raised |-> "BaseException", result |-> [error |-> "cancelled"]]

\* result.get("status") == expected
status_is(result, expected) == "status" \in DOMAIN result /\ result.status = expected

\* position of a key in an insertion-ordered dict, 0 when absent
IndexOf(d, name) ==
    IF \E i \in 1..Len(d) : d[i].name = name
    THEN CHOOSE i \in 1..Len(d) : d[i].name = name
    ELSE 0

\* self.checks[name] = check_func on an insertion-ordered dict: a new key goes
\* last, a key already there keeps its place and takes the new value
register_check(d, name, check_func) ==
    IF IndexOf(d, name) = 0
    THEN Append(d, [name |-> name, check_func |-> check_func])
    ELSE [d EXCEPT ![IndexOf(d, name)].check_func = check_func]

\* a degraded result lowers the overall status whatever it was
update_overall_DegradedAlways(overall_status, result) ==
    IF status_is(result, DOWN) THEN DOWN
    ELSE IF status_is(result, DEGRADED) THEN DEGRADED
    ELSE overall_status

\* the overall status after one more result
update_overall(overall_status, result) ==
    IF status_is(result, DOWN) THEN DOWN
    ELSE IF status_is(result, DEGRADED) /\ overall_status # DOWN THEN DEGRADED
    ELSE overall_status

NoHealthRun ==
    [ pc |-> "idle", i |-> 0, last_check_time |-> 0, results |-> EmptyDict,
      overall_status |-> UP, awaited |-> <<>>, raised |-> "none", response |-> EmptyDict ]

MaxRegistrations == 3

RegisterCheck ==
    \E name \in CheckNames, check_func \in CheckFuncs :
        /\ health.pc = "idle"
        /\ Len(regLog) < MaxRegistrations
        /\ checks' = register_check(checks, name, check_func)
        /\ regLog' = Append(regLog, [name |-> name, check_func |-> check_func])
        /\ UNCHANGED <<now, aggregate, ret, call, service, health, poll>>

\* check_health up to the loop
CheckHealthBegin ==
    /\ health.pc = "idle"
    /\ health' = [NoHealthRun EXCEPT !.pc = "loop", !.i = 1, !.last_check_time = now]
    /\ UNCHANGED <<now, aggregate, ret, call, service, checks, regLog, poll>>

\* one turn of the loop over self.checks.items()
CheckHealthStep ==
    /\ health.pc = "loop"
    /\ health.i <= Len(checks)
    /\ LET name == checks[health.i].name
           out == await_check(checks[health.i].check_func)
           ran == Append(health.awaited, name)
       IN  health' =
             CASE out.raised = "none" ->
                    [health EXCEPT !.i = @ + 1, !.awaited = ran,
                                   !.results = DictSet(@, name, out.result),
                                   !.overall_status = update_overall(@, out.result)]
               [] out.raised = "Exception" ->
                    [health EXCEPT !.i = @ + 1, !.awaited = ran,
                                   !.results = DictSet(@, name, [status |-> DOWN,
                                                                error |-> out.result.error]),
                                   !.overall_status = DOWN]
               [] OTHER ->
                    [health EXCEPT !.pc = "raised", !.awaited = ran,
                                   !.raised = out.raised]
    /\ UNCHANGED <<now, aggregate, ret, call, service, checks, regLog, poll>>

\* the return after the loop
CheckHealthReturn ==
    /\ health.pc = "loop"
    /\ health.i > Len(checks)
    /\ health' = [health EXCEPT !.pc = "returned",
                                !.response = [service |-> "svc",
                                              status |-> health.overall_status,
                                              timestamp |-> [isoformat |-> health.last_check_time,
                                                             suffix |-> "Z"],
                                              dependencies |-> health.results]]
    /\ UNCHANGED <<now, aggregate, ret, call, service, checks, regLog, poll>>

-----------------------------------------------------------------------------
(* The polling script: main polls every service's Docker health until all  *)
(* are healthy, one is unhealthy, or the timeout has elapsed.              *)

\* get_all_services: the services of the compose file
Services == {"api", "db"}

\* what the two docker commands give for a service
DockerObservations ==
    {"ps_fails", "no_container", "inspect_fails", "no_value", "null",
     "healthy", "unhealthy", "starting", "paused", "no_status"}

get_service_health(observed) ==
    CASE observed = "ps_fails" -> "error"
      [] observed = "no_container" -> "not_found"
      [] observed = "inspect_fails" -> "error"
      [] observed = "no_value" -> "none"
      [] observed = "null" -> "error"
      [] observed = "healthy" -> "healthy"
      [] observed = "unhealthy" -> "unhealthy"
      [] observed = "no_status" -> "unknown"
      [] OTHER -> observed

\* starting counts as healthy too
all_ok_StartingToo(statuses) ==
    \A i \in 1..Len(statuses) : statuses[i] \in {"healthy", "none", "starting"}

\* all(status in ["healthy", "none"] for status in statuses)
all_ok(statuses) == \A i \in 1..Len(statuses) : statuses[i] \in {"healthy", "none"}

\* any(status == "unhealthy" for status, _ in services_health.values())
any_unhealthy(services_health) ==
    \E srv \in DOMAIN services_health : services_health[srv] = "unhealthy"

\* the services in the order the dict holds them
ServiceOrder == <<"api", "db">>

MaxTimeout == 2
MaxInterval == 1
MaxPollTime == 2

NotStarted ==
    [ pc |-> "idle", timeout |-> 0, interval |-> 0, elapsed |-> 0,
      all_healthy |-> FALSE, services_health |-> EmptyDict, polls |-> 0,
      exit_code |-> "running" ]

\* main up to the loop, with the arguments parsed
StartMain ==
    \E timeout \in 0..MaxTimeout, interval \in 0..MaxInterval :
        /\ poll.pc = "idle"
        /\ poll' = [NotStarted EXCEPT !.pc = "loop", !.timeout = timeout,
                                      !.interval = interval]
        /\ UNCHANGED <<now, aggregate, ret, call, service, checks, health, regLog>>

\* while time.time() - start_time < args.timeout
LoopTest ==
    /\ poll.pc = "loop"
    /\ poll' = [poll EXCEPT !.pc = IF poll.elapsed < poll.timeout THEN "poll" ELSE "after"]
    /\ UNCHANGED <<now, aggregate, ret, call, service, checks, health, regLog>>

\* one poll: every service's status is read, which takes some time, and the
\* two tests follow
Poll ==
    \E observed \in [Services -> DockerObservations], took \in 1..MaxPollTime :
        LET services_health == [srv \in Services |->
                                   get_service_health(observed[srv])]
            statuses == [i \in 1..Len(ServiceOrder) |-> services_health[ServiceOrder[i]]]
            seen == [poll EXCEPT !.services_health = services_health,
                                 !.elapsed = @ + took, !.polls = @ + 1]
        IN  /\ poll.pc = "poll"
            /\ poll' = IF all_ok(statuses)
                       THEN [seen EXCEPT !.all_healthy = TRUE, !.pc = "after"]
                       ELSE IF any_unhealthy(services_health)
                       THEN [seen EXCEPT !.pc = "exit", !.exit_code = "1"]
                       ELSE [seen EXCEPT !.pc = "sleep"]
            /\ UNCHANGED <<now, aggregate, ret, call, service, checks, health, regLog>>

\* time.sleep(args.interval)
Sleep ==
    /\ poll.pc = "sleep"
    /\ poll' = [poll EXCEPT !.pc = "loop", !.elapsed = @ + poll.interval]
    /\ UNCHANGED <<now, aggregate, ret, call, service, checks, health, regLog>>

\* after the loop: the timeout exit, or the end of main
AfterLoop ==
    /\ poll.pc = "after"
    /\ poll' = [poll EXCEPT !.pc = "exit",
                            !.exit_code = IF ~poll.all_healthy THEN "1" ELSE "0"]
    /\ UNCHANGED <<now, aggregate, ret, call, service, checks, health, regLog>>

\* KeyboardInterrupt anywhere inside the try block
Interrupt ==
    /\ poll.pc \in {"loop", "poll", "sleep", "after"}
    /\ poll' = [poll EXCEPT !.pc = "exit", !.exit_code = "130"]
    /\ UNCHANGED <<now, aggregate, ret, call, service, checks, health, regLog>>

-----------------------------------------------------------------------------
(* The state after Conversation(title, created_by): the constructor checks *)
(* nothing, and created_at and updated_at are two clock readings, the      *)
(* second made after the first.                                            *)

Init ==
    \E t \in Titles, u \in Users, later \in 0..MaxTime :
        /\ now = later
        /\ id = "c1"
        /\ title = t
        /\ created_by = u
        /\ created_at = 0
        /\ updated_at = later
        /\ is_archived = FALSE
        /\ messages = <<>>
        /\ heap = <<>>
        /\ ret = Returned(None)
        /\ call = [Call("Conversation") EXCEPT !.title = t]
        /\ prev = [is_archived |-> FALSE, updated_at |-> 0]
        /\ addLog = <<>>
        /\ lastToggle = "none"
        /\ events = <<>>
        /\ repo = EmptyDict
        /\ tasks = [task \in Tasks |-> IdleTask]
        /\ applied = <<>>
        /\ opLog = <<>>
        /\ checks = <<>>
        /\ health = NoHealthRun
        /\ regLog = <<>>
        /\ poll = NotStarted

(* Time passes. *)
Tick ==
    /\ now < MaxTime
    /\ now' = now + 1
    /\ UNCHANGED <<fields, heap, ret, call, prev, addLog, lastToggle>>
    /\ UNCHANGED <<service, tooling>>

NewMessage ==
    \E a \in MessageArgs :
        /\ Len(heap) < MaxObjects
        /\ heap' = Append(heap, Message(a[1], a[2], a[3], a[4]))
        /\ ret' = Returned(<<Len(heap) + 1>>)
        /\ call' = [Call("Message") EXCEPT !.content = a[1]]
        /\ prev' = Snapshot
        /\ UNCHANGED <<now, fields, addLog, lastToggle>>
        /\ UNCHANGED <<service, tooling>>

UpdateContent ==
    \E self \in 1..Len(heap), new_content \in Contents :
        /\ update_content(self, new_content)
        /\ call' = [Call("update_content") EXCEPT !.message = self, !.content = new_content]
        /\ prev' = Snapshot
        /\ UNCHANGED <<now, fields, addLog, lastToggle>>
        /\ UNCHANGED <<service, tooling>>

AddMessage ==
    \E message \in 1..Len(heap) :
        /\ Len(messages) < MaxMessages
        /\ add_message(message)
        /\ call' = [Call("add_message") EXCEPT !.message = message]
        /\ prev' = Snapshot
        /\ addLog' = IF ret'.raised = "none" THEN Append(addLog, message) ELSE addLog
        /\ UNCHANGED <<now, heap, lastToggle>>
        /\ UNCHANGED <<service, tooling>>

UpdateTitle ==
    \E new_title \in Titles :
        /\ update_title(new_title)
        /\ call' = [Call("update_title") EXCEPT !.title = new_title]
        /\ prev' = Snapshot
        /\ UNCHANGED <<now, heap, addLog, lastToggle>>
        /\ UNCHANGED <<service, tooling>>

Archive ==
    /\ archive
    /\ call' = Call("archive")
    /\ prev' = Snapshot
    /\ lastToggle' = "archive"
    /\ UNCHANGED <<now, heap, addLog>>
    /\ UNCHANGED <<service, tooling>>

Unarchive ==
    /\ unarchive
    /\ call' = Call("unarchive")
    /\ prev' = Snapshot
    /\ lastToggle' = "unarchive"
    /\ UNCHANGED <<now, heap, addLog>>
    /\ UNCHANGED <<service, tooling>>

GetLatestMessages ==
    \E limit \in Limits :
        /\ get_latest_messages(limit)
        /\ call' = [Call("get_latest_messages") EXCEPT !.limit = limit]
        /\ prev' = Snapshot
        /\ UNCHANGED <<now, heap, addLog, lastToggle>>
        /\ UNCHANGED <<service, tooling>>

\* Message(...) with any arguments
ConstructMessage ==
    \E a \in AnyMessageArgs :
        /\ Len(heap) < MaxObjects
        /\ heap' = Append(heap, Message(a[1], a[2], a[3], a[4]))
        /\ ret' = Returned(<<Len(heap) + 1>>)
        /\ call' = [Call("Message") EXCEPT !.content = a[1]]
        /\ prev' = Snapshot
        /\ UNCHANGED <<now, fields, addLog, lastToggle>>
        /\ UNCHANGED <<service, tooling>>

AddMetadata ==
    \E self \in 1..Len(heap), a \in MetadataArgs :
        /\ add_metadata(self, a[1], a[2])
        /\ call' = [Call("add_metadata") EXCEPT !.message = self, !.key = a[1],
                                                !.value = a[2], !.old = heap[self].metadata]
        /\ prev' = Snapshot
        /\ UNCHANGED <<now, fields, addLog, lastToggle>>
        /\ UNCHANGED <<service, tooling>>

\* one of the events without a payload of its own, for the conversation
ConstructEvent ==
    \E u \in Users :
    \E e \in { ConversationCreated(Len(events) + 1, id, now, u, title),
                ConversationTitleUpdated(Len(events) + 1, id, now, u, <<"A">>, title),
                ConversationArchived(Len(events) + 1, id, now, u),
                ConversationUnarchived(Len(events) + 1, id, now, u),
                ConversationDeleted(Len(events) + 1, id, now, u) } :
        /\ Len(events) < MaxEvents
        /\ events' = Append(events, e)
        /\ ret' = Returned(<<Len(events) + 1>>)
        /\ call' = [Call(e.kind) EXCEPT !.event = Len(events) + 1]
        /\ prev' = Snapshot
        /\ UNCHANGED <<now, fields, heap, addLog, lastToggle>>
        /\ UNCHANGED <<orchestration, tooling>>

\* MessageAdded for a message, its metadata passed as None, as the message's
\* dict, or as a copy of it
ConstructMessageAdded ==
    \E u \in Users, m \in 1..Len(heap) :
    \E md \in {NoMetadata, MetadataOf(m), OwnMetadata(heap[m].metadata)} :
        /\ Len(events) < MaxEvents
        /\ events' = Append(events,
               MessageAdded(Len(events) + 1, heap[m].conversation_id, now, u,
                            heap[m].id, heap[m].message_type, heap[m].content, md))
        /\ ret' = Returned(<<Len(events) + 1>>)
        /\ call' = [Call("MessageAdded") EXCEPT !.event = Len(events) + 1, !.message = m]
        /\ prev' = Snapshot
        /\ UNCHANGED <<now, fields, heap, addLog, lastToggle>>
        /\ UNCHANGED <<orchestration, tooling>>

SetEventAttribute ==
    \E i \in 1..Len(events), name \in {"conversation_id", "timestamp"} :
        /\ event_setattr(i, name, "c2")
        /\ call' = [Call("event.__setattr__") EXCEPT !.event = i, !.key = name]
        /\ prev' = Snapshot
        /\ UNCHANGED <<now, fields, addLog, lastToggle>>
        /\ UNCHANGED <<orchestration, tooling>>

SetEventMetadataItem ==
    \E i \in 1..Len(events), a \in MetadataArgs :
        /\ events[i].kind = "MessageAdded"
        /\ event_metadata_setitem(i, a[1], a[2])
        /\ call' = [Call("event.metadata.__setitem__") EXCEPT !.event = i, !.key = a[1],
                                                              !.value = a[2]]
        /\ prev' = Snapshot
        /\ UNCHANGED <<now, fields, addLog, lastToggle>>
        /\ UNCHANGED <<orchestration, tooling>>

Next ==
    \/ Tick
    \/ NewMessage
    \/ AddMessage
    \/ UpdateTitle
    \/ Archive
    \/ Unarchive
    \/ GetLatestMessages

Spec == Init /\ [][Next]_vars

(* The entities' validated setters, on a conversation and the messages made for it. *)
NextSetters ==
    \/ Tick
    \/ NewMessage
    \/ UpdateContent
    \/ AddMessage
    \/ UpdateTitle

SpecSetters == Init /\ [][NextSetters]_vars

(* The mutators of Message, on messages made by the service's own calls. *)
NextMessage ==
    \/ Tick
    \/ NewMessage
    \/ UpdateContent
    \/ AddMetadata

\* the messages belong to a conversation constructed with a title, at time 0
InitMessage == Init /\ title = <<" ", "T">> /\ now = 0

SpecMessage == InitMessage /\ [][NextMessage]_vars

(* Messages constructed with any arguments and handed to the aggregate. *)
NextConstruct ==
    \/ Tick
    \/ ConstructMessage
    \/ UpdateContent
    \/ AddMessage

SpecConstruct == Init /\ [][NextConstruct]_vars

(* The service: calls on one conversation are serialized by the caller,   *)
(* calls on different conversations interleave.                            *)

\* history of one operation: what was asked, and once it is saved what was
\* written, when, and whether and when its event was published
LogEntry(op, cid) ==
    [ op |-> op, cid |-> cid, persisted |-> FALSE, raised |-> "running",
      deleted |-> FALSE, hasTitle |-> FALSE, title |-> <<>>, content |-> <<>>,
      user |-> "", first |-> 0, at |-> 0, published |-> FALSE, emitted_at |-> 0,
      overlap |-> FALSE ]

\* a caller makes one of the requests, as long as fewer than bound have been
\* made; exclusive: not while another call on the conversation is in flight
Begin(t, requests, bound, exclusive) ==
    \E r \in requests :
        /\ tasks[t].pc = "idle"
        /\ FirstIdle(t)
        /\ Len(opLog) < bound
        /\ exclusive => ~InFlight(r.cid)
        /\ tasks' = [tasks EXCEPT ![t] =
               [IdleTask EXCEPT !.pc = "load", !.n = Len(opLog) + 1, !.op = r.op,
                                !.cid = r.cid, !.hasTitle = r.hasTitle,
                                !.title = r.title, !.content = r.content]]
        /\ opLog' = Append([n \in DOMAIN opLog |->
                                IF \E u \in Tasks : /\ tasks[u].pc # "idle"
                                                     /\ tasks[u].n = n
                                                     /\ tasks[u].cid = r.cid
                                THEN [opLog[n] EXCEPT !.overlap = TRUE]
                                ELSE opLog[n]],
                            [LogEntry(r.op, r.cid) EXCEPT !.overlap = InFlight(r.cid)])
        /\ UNCHANGED <<now, aggregate, ret, call, events, repo, applied, tooling>>

Invoke(t) == Begin(t, Requests, MaxOps, TRUE)

\* a conversation that is missing taken for a new, empty one
Load_MissingAsNew(t) ==
    LET k == tasks[t] IN
        /\ k.pc = "load"
        /\ tasks' = [tasks EXCEPT ![t] =
               IF k.op = "create_conversation"
               THEN [k EXCEPT !.pc = "mutate"]
               ELSE [k EXCEPT !.pc = "mutate",
                              !.conv = [get_by_id(k.cid) EXCEPT !.id = k.cid],
                              !.old_title = get_by_id(k.cid).title]]
        /\ UNCHANGED <<now, aggregate, ret, call, events, repo, applied, opLog, tooling>>

Load(t) ==
    LET k == tasks[t] IN
        /\ k.pc = "load"
        /\ tasks' = [tasks EXCEPT ![t] =
               IF k.op = "create_conversation"
               THEN [k EXCEPT !.pc = "mutate"]
               ELSE IF k.cid \notin DOMAIN repo
               THEN IF k.op = "delete_conversation"
                    THEN [k EXCEPT !.pc = "return", !.deleted = FALSE]
                    ELSE [k EXCEPT !.pc = "return", !.raised = "EntityNotFoundError"]
               ELSE [k EXCEPT !.pc = "mutate", !.conv = get_by_id(k.cid),
                              !.old_title = get_by_id(k.cid).title]]
        /\ UNCHANGED <<now, aggregate, ret, call, events, repo, applied, opLog, tooling>>

Fail(t, kind) ==
    /\ tasks' = [tasks EXCEPT ![t].pc = "return", ![t].raised = kind]
    /\ UNCHANGED <<now, applied>>

Mutate(t) ==
    LET k == tasks[t] IN
        /\ k.pc = "mutate"
        /\ CASE k.op = "create_conversation" ->
                  IF TitleRejected(k.title)
                  THEN Fail(t, "ValidationError")
                  ELSE \E u \in Users, later \in now..MaxTime :
                          /\ tasks' = [tasks EXCEPT ![t].pc = "persist",
                                 ![t].conv = Conversation(k.cid, k.title, u, now, later)]
                          /\ now' = later
                          /\ applied' = Append(applied, k.n)
             [] k.op = "update_conversation" ->
                  IF ~k.hasTitle
                  THEN /\ tasks' = [tasks EXCEPT ![t].pc = "persist"]
                       /\ UNCHANGED <<now, applied>>
                  ELSE IF TitleRejected(k.title)
                  THEN Fail(t, "ValueError")
                  ELSE /\ tasks' = [tasks EXCEPT ![t].pc = "persist",
                              ![t].conv = Conversation_update_title(k.conv, k.title)]
                       /\ applied' = Append(applied, k.n)
                       /\ UNCHANGED now
             [] k.op = "add_message" ->
                  IF ContentRejected(k.content)
                  THEN Fail(t, "ValidationError")
                  ELSE \E u \in Users :
                          /\ tasks' = [tasks EXCEPT ![t].pc = "persist",
                                 ![t].conv = Conversation_add_message(k.conv,
                                    [Message(k.content, u, "user", k.cid) EXCEPT !.id = k.n])]
                          /\ applied' = Append(applied, k.n)
                          /\ UNCHANGED now
             [] k.op = "delete_conversation" ->
                  /\ tasks' = [tasks EXCEPT ![t].pc = "persist"]
                  /\ UNCHANGED <<now, applied>>
        /\ UNCHANGED <<aggregate, ret, call, events, repo, opLog, tooling>>

Persist(t) ==
    LET k == tasks[t] IN
    \E saved \in BOOLEAN :
        /\ k.pc = "persist"
        /\ IF saved
           THEN /\ repo' = IF k.op = "delete_conversation" THEN delete(k.cid) ELSE save(k.conv)
                /\ applied' = IF k.op = "delete_conversation" THEN Append(applied, k.n)
                                                              ELSE applied
                /\ opLog' = [opLog EXCEPT ![k.n].persisted = TRUE,
                                          ![k.n].hasTitle = k.hasTitle,
                                          ![k.n].title = k.title,
                                          ![k.n].content = k.content,
                                          ![k.n].user = k.conv.created_by,
                                          ![k.n].first = k.conv.created_at,
                                          ![k.n].at = k.conv.updated_at]
                /\ tasks' = [tasks EXCEPT ![t].pc = after_save(TRUE),
                                          ![t].deleted = (k.op = "delete_conversation")]
           ELSE /\ tasks' = [tasks EXCEPT ![t].pc = after_save(FALSE),
                                          ![t].raised = "RepositoryError"]
                /\ UNCHANGED <<repo, applied, opLog>>
        /\ UNCHANGED <<now, aggregate, ret, call, events, tooling>>

Emit(t) ==
    LET k == tasks[t] IN
        /\ k.pc = "emit"
        /\ IF ~has_event(k)
           THEN /\ tasks' = [tasks EXCEPT ![t].pc = "return"]
                /\ UNCHANGED <<events, repo, opLog>>
           ELSE \E published \in BOOLEAN :
                   IF published
                   THEN /\ emit(event_for(k))
                        /\ tasks' = [tasks EXCEPT ![t].pc = "return"]
                        /\ opLog' = [opLog EXCEPT ![k.n].published = TRUE,
                                                  ![k.n].emitted_at = now]
                        /\ UNCHANGED repo
                   ELSE /\ on_publish_failure(k)
                        /\ tasks' = [tasks EXCEPT ![t].pc = "return",
                                                  ![t].raised = "EventPublishingError"]
                        /\ UNCHANGED <<events, opLog>>
        /\ UNCHANGED <<now, aggregate, ret, call, applied, tooling>>

Return(t) ==
    LET k == tasks[t] IN
        /\ k.pc = "return"
        /\ ret' = IF k.raised # "none" THEN Raised(k.raised)
                  ELSE CASE k.op = "delete_conversation" -> Returned(Bool(k.deleted))
                         [] k.op = "add_message" ->
                                Returned([message |-> k.conv.messages[Len(k.conv.messages)]])
                         [] OTHER -> Returned(k.conv)
        /\ call' = Call(k.op)
        /\ opLog' = [opLog EXCEPT ![k.n].raised = k.raised, ![k.n].deleted = k.deleted]
        /\ tasks' = [tasks EXCEPT ![t] = IdleTask]
        /\ UNCHANGED <<now, aggregate, events, repo, applied, tooling>>

NextService ==
    \/ \E t \in Tasks : Invoke(t)
    \/ \E t \in Tasks : Load(t)
    \/ \E t \in Tasks : Mutate(t)
    \/ \E t \in Tasks : Persist(t)
    \/ \E t \in Tasks : Emit(t)
    \/ \E t \in Tasks : Return(t)

SpecService == InitMessage /\ [][NextService]_vars

NextHealth ==
    \/ RegisterCheck
    \/ CheckHealthBegin
    \/ CheckHealthStep
    \/ CheckHealthReturn

SpecHealth == InitMessage /\ [][NextHealth]_vars

NextPoll ==
    \/ StartMain
    \/ LoopTest
    \/ Poll
    \/ Sleep
    \/ AfterLoop
    \/ Interrupt

\* the script is a running process: it takes its next step
SpecPoll == InitMessage /\ [][NextPoll]_vars /\ WF_vars(NextPoll)

(* The use cases called one after another by a single caller, with reads   *)
(* in between.                                                             *)

UseCaseRequests ==
    Requests \cup {Request("create_conversation", c, TRUE, <<" ", "\t">>, <<>>) :
                      c \in ConvIds \ UsedIds}

InvokeNext == Begin("t1", UseCaseRequests, MaxOps, TRUE)

Quiet == \A t \in Tasks : tasks[t].pc = "idle"

GetConversation ==
    \E c \in ConvIds :
        /\ Quiet
        /\ ret' = Returned(get_by_id(c))
        /\ call' = [Call("get_conversation") EXCEPT !.conversation_id = c]
        /\ UNCHANGED <<now, aggregate, service, tooling>>

GetById ==
    \E c \in ConvIds :
        /\ Quiet
        /\ ret' = Returned(get_by_id(c))
        /\ call' = [Call("get_by_id") EXCEPT !.conversation_id = c]
        /\ UNCHANGED <<now, aggregate, service, tooling>>

NextUseCases ==
    \/ InvokeNext
    \/ Load("t1")
    \/ Mutate("t1")
    \/ Persist("t1")
    \/ Emit("t1")
    \/ Return("t1")
    \/ GetConversation
    \/ GetById

SpecUseCases == InitMessage /\ [][NextUseCases]_vars

(* The repository used directly: conversations saved, saved again, looked *)
(* up and deleted.                                                        *)

ConversationValues ==
    {Conversation(c, t, u, 0, at) :
        c \in ConvIds, t \in {<<"A">>, <<"B">>}, u \in Users, at \in 0..MaxTime}

RepoSave ==
    \E c \in ConversationValues :
        /\ repo' = save(c)
        /\ ret' = Returned(repo'[c.id])
        /\ call' = [Call("save") EXCEPT !.conversation = c]
        /\ UNCHANGED <<now, aggregate, events, tasks, applied, opLog, tooling>>

\* save(save(c)): what the last save returned is saved once more
RepoSaveAgain ==
    /\ call.op = "save"
    /\ repo' = save(ret.value)
    /\ ret' = Returned(repo'[ret.value.id])
    /\ call' = [Call("save_again") EXCEPT !.conversation = ret.value]
    /\ UNCHANGED <<now, aggregate, events, tasks, applied, opLog, tooling>>

RepoDelete ==
    \E c \in ConvIds :
        /\ repo' = delete(c)
        /\ ret' = Returned(Bool(c \in DOMAIN repo))
        /\ call' = [Call("delete") EXCEPT !.conversation_id = c]
        /\ UNCHANGED <<now, aggregate, events, tasks, applied, opLog, tooling>>

NextRepository ==
    \/ RepoSave
    \/ RepoSaveAgain
    \/ GetById
    \/ RepoDelete

SpecRepository == InitMessage /\ [][NextRepository]_vars

(* Messages added to a conversation as time passes, and read back. *)

MessageRequests ==
    {r \in Requests : \/ r.op = "add_message" /\ r.cid = "c1" /\ r.content # <<>>
                      \/ r.op = "create_conversation" /\ r.cid = "c1" /\ r.title = <<"A">>}

InvokeMessages == Begin("t1", MessageRequests, MaxCalls, TRUE)

\* get_messages on a conversation the repository holds
GetMessages ==
    \E c \in DOMAIN repo, limit \in 0..(MaxMessages + 1),
       hasBefore \in BOOLEAN, before \in 0..MaxTime :
        /\ Quiet
        /\ hasBefore \/ before = 0
        /\ ret' = Returned([messages |-> get_messages(repo[c], limit, hasBefore, before)])
        /\ call' = [Call("get_messages") EXCEPT !.conversation_id = c, !.limit = limit,
                                                !.hasBefore = hasBefore, !.before = before]
        /\ UNCHANGED <<now, aggregate, service, tooling>>

NextMessages ==
    \/ Tick
    \/ InvokeMessages
    \/ Load("t1")
    \/ Mutate("t1")
    \/ Persist("t1")
    \/ Emit("t1")
    \/ Return("t1")
    \/ GetMessages

SpecMessages == InitMessage /\ [][NextMessages]_vars

(* Conversations created and deleted, and looked up in between. *)

DeletionRequests ==
    {r \in Requests : \/ r.op = "delete_conversation"
                      \/ r.op = "create_conversation" /\ r.title = <<"A">>}

InvokeDeletion == Begin("t1", DeletionRequests, MaxCalls, TRUE)

NextDeletion ==
    \/ InvokeDeletion
    \/ Load("t1")
    \/ Mutate("t1")
    \/ Persist("t1")
    \/ Emit("t1")
    \/ Return("t1")
    \/ GetConversation

SpecDeletion == InitMessage /\ [][NextDeletion]_vars

(* Domain events constructed for a conversation and its messages. *)
NextEvents ==
    \/ NewMessage
    \/ AddMetadata
    \/ ConstructEvent
    \/ ConstructMessageAdded
    \/ SetEventAttribute
    \/ SetEventMetadataItem

SpecEvents == InitMessage /\ [][NextEvents]_vars

-----------------------------------------------------------------------------
(* Vocabulary of the properties *)

IsBlank(s) == \A i \in 1..Len(s) : s[i] \in Whitespace
IsPrefix(a, b) == Len(a) <= Len(b) /\ SubSeq(b, 1, Len(a)) = a
Count(s, x) == Cardinality({i \in 1..Len(s) : s[i] = x})
Elems(s) == {s[i] : i \in 1..Len(s)}
\* every element of a occurs in b at least as often as in a
SubBag(a, b) == \A x \in Elems(a) : Count(a, x) <= Count(b, x)
\* the elements of b that a leaves out
Omitted(a, b) == {x \in Elems(b) : Count(a, x) < Count(b, x)}
TimestampDescending(s) ==
    \A i, j \in 1..Len(s) : i < j => heap[s[i]].timestamp >= heap[s[j]].timestamp
Mutators == {"add_message", "update_title", "archive", "unarchive"}

-----------------------------------------------------------------------------
\* C1: Conversation(title, created_by), no other field supplied, yields an
\* aggregate with created_at = updated_at, is_archived false and no messages.
\* The constructor reads the clock once for each timestamp, so the first
\* conjunct fails whenever the clock moves between the two readings.
C1_CreatedEqualsUpdated ==
    call.op = "Conversation" =>
        /\ created_at = updated_at
        /\ is_archived = FALSE
        /\ messages = <<>>

C3_FailureAtomicity ==
    [][(call'.op \in {"update_title", "update_content"} /\ ret'.raised # "none")
        => (UNCHANGED fields /\ UNCHANGED heap)]_vars

C3_Witness ==
    /\ call.op = "update_content"
    /\ ret.raised = "ValueError"
    /\ IsBlank(call.content)
    /\ heap[call.message].content = <<"h", "i">>
    /\ messages # <<>>

\* C4: after N add_message calls that returned, interleaved with any other
\* operation of the aggregate, messages has length N and lists the messages
\* in the order of the calls.
C4_MessagesInCallOrder == messages = addLog

C4_Witness ==
    /\ addLog = <<2, 1>>
    /\ messages = <<2, 1>>
    /\ call.op \notin {"add_message", "Message"}
    /\ lastToggle # "none"

\* C5: no operation removes or reorders an element of messages: the sequence
\* before any step is a prefix of the sequence after it.
C5_AppendOnly == [][IsPrefix(messages, messages')]_vars

C5_Witness ==
    /\ call.op = "get_latest_messages"
    /\ messages = <<1, 2>>
    /\ ret.value = <<2, 1>>

\* C6: updated_at >= created_at in every state, updated_at never decreases,
\* and every mutation that returns leaves updated_at at the clock's reading.
C6_UpdatedAtMonotone ==
    /\ [](updated_at >= created_at)
    /\ [][updated_at' >= updated_at]_vars
    /\ [][(call'.op \in Mutators /\ ret'.raised = "none" /\ now' = now)
            => updated_at' = now']_vars

C6_Witness ==
    /\ call.op = "update_title"
    /\ ret.raised = "none"
    /\ created_at < updated_at
    /\ prev.updated_at < updated_at

\* C7: archive always leaves is_archived true and unarchive always leaves it
\* false, whatever it was, and each call stamps updated_at with the clock's
\* reading even when is_archived does not change.
C7_ToggleIdempotentTouch ==
    [][now' = now =>
        /\ call'.op = "archive" => (is_archived' = TRUE /\ updated_at' = now')
        /\ call'.op = "unarchive" => (is_archived' = FALSE /\ updated_at' = now')]_vars

C7_Witness ==
    /\ call.op = "archive"
    /\ prev.is_archived = TRUE
    /\ is_archived = TRUE
    /\ prev.updated_at < updated_at

\* C8: is_archived is true exactly when the most recent archive / unarchive
\* call was archive, and false when neither was ever called.
C8_ArchivedIffLastToggleArchive == is_archived = (lastToggle = "archive")

C8_Witness ==
    /\ call.op = "unarchive"
    /\ prev.is_archived = TRUE
    /\ is_archived = FALSE
    /\ messages # <<>>

C10_KMostRecent ==
    (call.op = "get_latest_messages" /\ call.limit >= 0) =>
        /\ Len(ret.value) = Min(call.limit, Len(messages))
        /\ \A o \in Omitted(ret.value, messages), r \in Elems(ret.value) :
               heap[o].timestamp <= heap[r].timestamp
        /\ (Len(messages) = 1 /\ call.limit = 1) => ret.value = messages

C10_Witness ==
    /\ call.op = "get_latest_messages"
    /\ call.limit = 1
    /\ addLog = <<1>>
    /\ ret.value = <<1>>

-----------------------------------------------------------------------------
\* C11: in every reachable state no Message has empty or whitespace-only
\* content, and both Message(...) and update_content with such content fail
\* with ValidationError.
C11_ContentNeverBlank ==
    /\ \A m \in 1..Len(heap) : ~IsBlank(heap[m].content)
    /\ (call.op \in {"Message", "update_content"} /\ IsBlank(call.content))
           => ret.raised = "ValidationError"

\* C12: in every reachable state, the one right after construction included,
\* the title of the Conversation is neither empty nor whitespace-only.
C12_TitleNeverBlank == ~IsBlank(title)

\* C13: in every reachable state every Message in messages carries the id of
\* the conversation as its conversation_id.
C13_MessagesCarryConversationId ==
    \A i \in 1..Len(messages) : heap[messages[i]].conversation_id = id

\* C14: update_content changes content only; add_metadata(key, value) never
\* fails, leaves metadata[key] = value, keeps every other key of metadata and
\* every other field; neither touches another message.
C14_MessageMutatorsFrame ==
    [][/\ Len(heap') >= Len(heap)
       /\ call'.op = "update_content" =>
            /\ Len(heap') = Len(heap)
            /\ \A m \in 1..Len(heap) : m # call'.message => heap'[m] = heap[m]
            /\ [heap'[call'.message] EXCEPT !.content = heap[call'.message].content]
                   = heap[call'.message]
            /\ ret'.raised = "none" => heap'[call'.message].content = call'.content
       /\ call'.op = "add_metadata" =>
            /\ ret'.raised = "none"
            /\ Len(heap') = Len(heap)
            /\ \A m \in 1..Len(heap) : m # call'.message => heap'[m] = heap[m]
            /\ [heap'[call'.message] EXCEPT !.metadata = heap[call'.message].metadata]
                   = heap[call'.message]
            /\ DOMAIN heap'[call'.message].metadata
                   = (DOMAIN heap[call'.message].metadata) \cup {call'.key}
            /\ heap'[call'.message].metadata[call'.key] = call'.value
            /\ \A k \in (DOMAIN heap[call'.message].metadata) \ {call'.key} :
                   heap'[call'.message].metadata[k] = heap[call'.message].metadata[k]
      ]_vars

C14_Witness ==
    /\ call.op = "add_metadata"
    /\ call.key \in DOMAIN call.old
    /\ call.old[call.key] # call.value
    /\ DOMAIN heap[call.message].metadata = {"k1", "k2"}
    /\ heap[call.message].metadata[call.key] = call.value
    /\ heap[call.message].timestamp < now

\* C15: once an event is constructed no reading of any of its fields, the
\* metadata of MessageAdded included, ever gives another value, and every
\* assignment to a field is rejected.
C15_EventsWriteOnce ==
    [][/\ \A i \in 1..Len(events) : EventValues'[i] = EventValues[i]
       /\ call'.op = "event.__setattr__" => ret'.raised # "none"]_vars

-----------------------------------------------------------------------------
(* Vocabulary of the service's properties *)

Pos(seq, x) == CHOOSE i \in 1..Len(seq) : seq[i] = x
\* the events of operation n among evs
EventsOfOp(evs, n) == {i \in 1..Len(evs) : evs[i].event_id = n}
\* the repository r holds what call k made of its conversation
StoredIn(r, k) ==
    IF k.op = "delete_conversation"
    THEN k.cid \notin DOMAIN r
    ELSE k.cid \in DOMAIN r /\ r[k.cid] = k.conv
\* call t takes the step from one position to the other
Steps(t, from, to) == tasks[t].pc = from /\ tasks'[t].pc = to
StepOrder ==
    { <<"idle", "load">>, <<"load", "mutate">>, <<"load", "return">>,
      <<"mutate", "persist">>, <<"mutate", "return">>, <<"persist", "emit">>,
      <<"persist", "return">>, <<"emit", "return">>, <<"return", "idle">> }
EventKind ==
    [ create_conversation |-> "ConversationCreated",
      update_conversation |-> "ConversationTitleUpdated",
      delete_conversation |-> "ConversationDeleted",
      add_message |-> "MessageAdded" ]
NotSaved == {"ValidationError", "ValueError", "EntityNotFoundError", "RepositoryError"}

\* C16: the events of one conversation stand in the sink in the order in
\* which the mutations they report were applied.
C16_CausalOrder ==
    \A i, j \in 1..Len(events) :
        (i < j /\ events[i].conversation_id = events[j].conversation_id) =>
            /\ events[i].event_id \in Elems(applied)
            /\ events[j].event_id \in Elems(applied)
            /\ Pos(applied, events[i].event_id) < Pos(applied, events[j].event_id)

C16_Witness ==
    \E i, j \in 1..Len(events) :
        /\ i < j
        /\ events[i].conversation_id = events[j].conversation_id
        /\ events[i].kind # events[j].kind

\* C17: a call moves through load, mutate, persist, emit, return in that
\* order; an event enters the sink only in the emit step of a call whose
\* mutation the repository already holds; an operation that ended in a
\* validation, not-found or save failure has no event.
C17_PersistThenEmit ==
    [][/\ \A t \in Tasks :
            tasks'[t].pc # tasks[t].pc => <<tasks[t].pc, tasks'[t].pc>> \in StepOrder
       /\ events' # events =>
            \E t \in Tasks :
                /\ Steps(t, "emit", "return")
                /\ opLog[tasks[t].n].persisted
                /\ tasks[t].raised = "none"
                /\ StoredIn(repo, tasks[t])
                /\ Len(events') = Len(events) + 1
       /\ \A n \in 1..Len(opLog') :
            opLog'[n].raised \in NotSaved => EventsOfOp(events', n) = {}]_vars

C17_Witness ==
    /\ events # <<>>
    /\ \E n \in 1..Len(opLog) : opLog[n].raised = "RepositoryError"

\* C18: when the event of a saved mutation cannot be published the call
\* ends in EventPublishingError, and what was saved stays in the repository.
C18_NoRollback ==
    [][\A t \in Tasks :
        /\ (Steps(t, "emit", "return") /\ events' = events
                /\ (tasks[t].op = "update_conversation" =>
                        tasks[t].hasTitle /\ tasks[t].title # tasks[t].old_title))
            => /\ tasks'[t].raised = "EventPublishingError"
               /\ opLog[tasks[t].n].persisted
               /\ StoredIn(repo', tasks[t])
        /\ (Steps(t, "return", "idle") /\ tasks[t].raised = "EventPublishingError")
            => /\ ret'.raised = "EventPublishingError"
               /\ IsDomainException(ret'.raised)
               /\ StoredIn(repo', tasks[t])
               /\ EventsOfOp(events', tasks[t].n) = {}]_vars

C18_Witness ==
    /\ ret.raised = "EventPublishingError"
    /\ call.op = "add_message"
    /\ \E c \in DOMAIN repo : Len(repo[c].messages) = 1
    /\ \A i \in 1..Len(events) : events[i].kind # "MessageAdded"

\* C19: when create_conversation, add_message or a delete_conversation that
\* removed the conversation returns, the sink holds exactly one event of the
\* operation, of the matching kind and with the conversation's id; when the
\* operation fails or the delete removed nothing, it holds none.
C19_OneMatchingEvent ==
    [][\A t \in Tasks :
        (Steps(t, "return", "idle") /\ tasks[t].op # "update_conversation") =>
            LET k == tasks[t]
                mine == EventsOfOp(events', k.n)
                succeeded == /\ ret'.raised = "none"
                             /\ k.op = "delete_conversation" => ret'.value = Bool(TRUE)
            IN  IF succeeded
                THEN /\ Cardinality(mine) = 1
                     /\ \A i \in mine :
                            /\ events'[i].kind = EventKind[k.op]
                            /\ events'[i].conversation_id = k.cid
                ELSE mine = {}]_vars

C19_Witness ==
    \E n \in 1..Len(opLog) :
        /\ opLog[n].op = "delete_conversation"
        /\ opLog[n].raised = "none"
        /\ opLog[n].deleted
        /\ \E i \in EventsOfOp(events, n) : events[i].kind = "ConversationDeleted"

\* C20: when update_conversation returns, the sink holds a
\* ConversationTitleUpdated of the call only if a title was supplied that
\* differs from the title loaded, and that event carries the loaded title as
\* old_title and the supplied one as new_title; with no title, or the same
\* title, it holds no such event.
C20_TitleUpdatedOnlyOnChange ==
    [][\A t \in Tasks :
        (Steps(t, "return", "idle") /\ tasks[t].op = "update_conversation") =>
            LET k == tasks[t]
                mine == {i \in EventsOfOp(events', k.n) :
                            events'[i].kind = "ConversationTitleUpdated"}
            IN  /\ mine # {} => /\ k.hasTitle
                                /\ k.title # k.old_title
                                /\ \A i \in mine : /\ events'[i].old_title = k.old_title
                                                   /\ events'[i].new_title = k.title
                /\ (~k.hasTitle \/ k.title = k.old_title) => mine = {}]_vars

C20_Witness ==
    /\ call.op = "update_conversation"
    /\ ret.raised = "none"
    /\ \E i \in 1..Len(events) :
        /\ events[i].kind = "ConversationTitleUpdated"
        /\ events[i].old_title = <<"A">>
        /\ events[i].new_title = <<"B">>

-----------------------------------------------------------------------------
(* Vocabulary of the use cases' properties *)

\* the step is the read op, made while no call is in flight
ReadStep(op) ==
    /\ tasks' = tasks
    /\ now' = now
    /\ call'.op = op
    /\ call' # call
Absent == NoConversation

OpsOn(c) == {n \in 1..Len(opLog) : opLog[n].cid = c}
\* the last operation on c has returned and was a delete that removed it
LastWasDelete(c) ==
    /\ OpsOn(c) # {}
    /\ LET n == CHOOSE m \in OpsOn(c) : \A o \in OpsOn(c) : o <= m
       IN  /\ opLog[n].op = "delete_conversation"
           /\ opLog[n].raised = "none"
           /\ opLog[n].deleted

\* C22: delete_conversation returns True exactly when it found the
\* conversation, which is then gone from the repository, and False without
\* raising when the id resolves to nothing (deleted before, or never saved);
\* get_conversation after a delete that returned True gives the absent value.
C22_DeleteReturnsWhetherRemoved ==
    [][/\ \A t \in Tasks :
            LET k == tasks[t] IN
            /\ (k.pc = "load" /\ tasks'[t] # k /\ k.op = "delete_conversation"
                    /\ k.cid \notin DOMAIN repo)
                => /\ tasks'[t].pc = "return"
                   /\ tasks'[t].raised = "none"
                   /\ ~tasks'[t].deleted
            /\ (Steps(t, "return", "idle") /\ k.op = "delete_conversation")
                => /\ k.raised = "none" =>
                        /\ ret'.raised = "none"
                        /\ ret'.value = Bool(k.conv.id = k.cid)
                   /\ k.raised # "none" => k.conv.id = k.cid
                   /\ (ret'.raised = "none" /\ ret'.value = Bool(TRUE)) =>
                        k.cid \notin DOMAIN repo'
                   /\ (ret'.raised = "none" /\ ret'.value = Bool(FALSE)) =>
                        /\ repo' = repo
                        /\ ~opLog[k.n].persisted
       /\ (ReadStep("get_conversation") /\ LastWasDelete(call'.conversation_id))
            => ret' = Returned(Absent)]_vars

C22_Witness ==
    \E n, m \in 1..Len(opLog) :
        /\ n < m
        /\ opLog[n].cid = opLog[m].cid
        /\ opLog[n].op = "delete_conversation" /\ opLog[n].raised = "none"
        /\ opLog[n].deleted
        /\ opLog[m].op = "delete_conversation" /\ opLog[m].raised = "none"
        /\ ~opLog[m].deleted
        /\ call.op = "delete_conversation"
        /\ ret = Returned(Bool(FALSE))

\* equal in every field but updated_at
SameButStamp(a, b) == [a EXCEPT !.updated_at = 0] = [b EXCEPT !.updated_at = 0]

C25_GetMessagesBounded ==
    [][ReadStep("get_messages") =>
        LET got == ret'.value.messages
            held == repo[call'.conversation_id].messages
        IN  /\ ret'.raised = "none"
            /\ Len(got) <= call'.limit
            /\ SubBag(got, held)
            /\ \A i \in 1..Len(got) : got[i].conversation_id = call'.conversation_id
            /\ call'.hasBefore =>
                    \A i \in 1..Len(got) : got[i].timestamp < call'.before
            /\ repo' = repo]_vars

C25_Witness ==
    /\ call.op = "get_messages"
    /\ call.hasBefore
    /\ Len(ret.value.messages) = 1
    /\ call.limit > 1
    /\ \E i \in 1..Len(repo[call.conversation_id].messages) :
            repo[call.conversation_id].messages[i].timestamp = call.before

\* C27: no operation of the aggregate changes id, created_by or created_at;
\* update_title leaves is_archived and messages as they were, archive and
\* unarchive leave title and messages, add_message leaves title and
\* is_archived, and get_latest_messages leaves every field; none of them
\* changes a message object.
C27_AggregateFrame ==
    [][/\ <<id, created_by, created_at>>' = <<id, created_by, created_at>>
       /\ call'.op = "update_title" =>
            /\ <<is_archived, messages, heap>>' = <<is_archived, messages, heap>>
            /\ (title' # title \/ updated_at' # updated_at) => ret'.raised = "none"
       /\ call'.op \in {"archive", "unarchive"} =>
            <<title, messages, heap>>' = <<title, messages, heap>>
       /\ call'.op = "add_message" =>
            <<title, is_archived, heap>>' = <<title, is_archived, heap>>
       /\ call'.op = "get_latest_messages" =>
            /\ fields' = fields
            /\ heap' = heap]_vars

C27_Witness ==
    /\ call.op = "add_message"
    /\ is_archived
    /\ Len(messages) = MaxMessages
    /\ updated_at > created_at
    /\ title # <<>>

-----------------------------------------------------------------------------
(* Two callers mutating the same conversation with nothing serializing     *)
(* them: each loads, mutates its own copy and saves it.                    *)

RaceRequests ==
    {r \in Requests :
        /\ r.cid = "c1"
        /\ \/ r.op = "create_conversation" /\ r.title = <<"A">>
           \/ r.op = "add_message" /\ r.content # <<>>
           \/ r.op = "update_conversation" /\ r.hasTitle /\ r.title = <<"B">>}

InvokeRace(t) == Begin(t, RaceRequests, MaxCalls, FALSE)

NextRace ==
    \/ \E t \in Tasks : InvokeRace(t)
    \/ \E t \in Tasks : Load(t)
    \/ \E t \in Tasks : Mutate(t)
    \/ \E t \in Tasks : Persist(t)
    \/ \E t \in Tasks : Emit(t)
    \/ \E t \in Tasks : Return(t)

SpecRace == InitMessage /\ [][NextRace]_vars

-----------------------------------------------------------------------------
(* A conversation's operations run alone: each one applied whole, in the   *)
(* order of invocation, to a store and a sink that hold nothing else.      *)

Alone0 == [present |-> FALSE, conv |-> NoConversation, events |-> <<>>]

AloneStep(st, n) ==
    LET e == opLog[n]
        c == e.cid
        out(event) == IF e.published THEN Append(st.events, event) ELSE st.events
    IN  IF ~e.persisted THEN st
        ELSE CASE e.op = "create_conversation" ->
                  [ present |-> TRUE,
                    conv |-> Conversation(c, e.title, e.user, e.first, e.at),
                    events |-> out(ConversationCreated(n, c, e.emitted_at, e.user, e.title)) ]
               [] e.op = "update_conversation" ->
                  [ present |-> TRUE,
                    conv |-> IF e.hasTitle
                             THEN [Conversation_update_title(st.conv, e.title)
                                        EXCEPT !.updated_at = e.at]
                             ELSE st.conv,
                    events |-> out(ConversationTitleUpdated(n, c, e.emitted_at,
                                      st.conv.created_by, e.title, st.conv.title)) ]
               [] e.op = "add_message" ->
                  [ present |-> TRUE,
                    conv |-> [Conversation_add_message(st.conv,
                                 [Message(e.content, e.user, "user", c)
                                     EXCEPT !.id = n, !.timestamp = e.at])
                                 EXCEPT !.updated_at = e.at],
                    events |-> out(MessageAdded(n, c, e.emitted_at, e.user, n, "user",
                                                e.content, OwnMetadata(EmptyDict))) ]
               [] e.op = "delete_conversation" ->
                  [ present |-> FALSE,
                    conv |-> NoConversation,
                    events |-> out(ConversationDeleted(n, c, e.emitted_at,
                                                       st.conv.created_by)) ]

RECURSIVE Alone(_, _)
\* the operations on c among the first n, run alone
Alone(c, n) ==
    IF n = 0 THEN Alone0
    ELSE IF opLog[n].cid = c THEN AloneStep(Alone(c, n - 1), n)
         ELSE Alone(c, n - 1)

EventsOfConv(c) == SelectSeq(events, LAMBDA e : e.conversation_id = c)

Saved(c) == {n \in OpsOn(c) : opLog[n].persisted}
\* no call on c was made while another call on c was in flight
OneAfterTheOther(c) == \A n \in OpsOn(c) : ~opLog[n].overlap
\* the identifiers of the messages the repository holds of c
StoredMessageIds(c) == {repo[c].messages[i].id : i \in 1..Len(repo[c].messages)}

\* C28: a save of a conversation leaves the repository holding exactly the
\* copy the saving call had loaded and mutated, so whatever another call saved
\* since that load is gone and not merged; and when the calls on a
\* conversation were made one after the other, the repository holds what
\* applying all the saved ones in turn gives, each saved message included.
C28_LastWriterWins ==
    /\ [][\A t \in Tasks :
            Steps(t, "persist", "emit") =>
                /\ repo'[tasks[t].cid] = tasks[t].conv
                /\ \A c \in DOMAIN repo \ {tasks[t].cid} :
                        c \in DOMAIN repo' /\ repo'[c] = repo[c]]_vars
    /\ [](\A c \in DOMAIN repo :
            (Quiet /\ OneAfterTheOther(c)) =>
                /\ repo[c] = Alone(c, Len(opLog)).conv
                /\ \A n \in Saved(c) :
                        opLog[n].op = "add_message" => n \in StoredMessageIds(c))

\* two overlapping calls both saved a change, and the repository holds the
\* later one's only
C28_Witness ==
    /\ Quiet
    /\ "c1" \in DOMAIN repo
    /\ \E m, n \in Saved("c1") :
            /\ m # n
            /\ opLog[m].overlap /\ opLog[n].overlap
            /\ opLog[m].op = "add_message" /\ opLog[n].op = "add_message"
            /\ m \notin StoredMessageIds("c1")
            /\ n \in StoredMessageIds("c1")

\* the same two calls made one after the other, both changes stored
C28_WitnessSequential ==
    /\ Quiet
    /\ "c1" \in DOMAIN repo
    /\ OneAfterTheOther("c1")
    /\ \E m, n \in Saved("c1") :
            /\ m # n
            /\ opLog[m].op = "add_message" /\ opLog[n].op = "add_message"
            /\ {m, n} \subseteq StoredMessageIds("c1")

-----------------------------------------------------------------------------
(* check_health over a registry                                            *)

RECURSIVE Registry(_, _)
\* the registry the first n register_check calls of regs leave
Registry(regs, n) ==
    IF n = 0 THEN <<>>
    ELSE register_check(Registry(regs, n - 1), regs[n].name, regs[n].check_func)

\* the functions a registry holds
FuncsOf(d) == {d[i].check_func : i \in 1..Len(d)}

\* the status the rule gives for a set of check functions: down if one of them
\* returns down or raises, else degraded if one returns degraded, else up
RuleStatus(funcs) ==
    IF funcs \cap {"returns_down", "raises_Exception"} # {} THEN DOWN
    ELSE IF "returns_degraded" \in funcs THEN DEGRADED
    ELSE UP

\* how check_health ends on a registry, by the rule
RuleOutcome(d) ==
    IF "raises_BaseException" \in FuncsOf(d)
    THEN [raised |-> "BaseException", status |-> DOWN]
    ELSE [raised |-> "none", status |-> RuleStatus(FuncsOf(d))]

\* how the check_health call ended
HealthDone == health.pc \in {"returned", "raised"}
HealthOutcome ==
    [ raised |-> health.raised,
      status |-> IF health.pc = "returned" THEN health.response.status ELSE DOWN ]

Perms(n) == {q \in [1..n -> 1..n] : \A i, j \in 1..n : q[i] = q[j] => i = j}
Reordered(regs, q) == [i \in 1..Len(regs) |-> regs[q[i]]]
DistinctNames(regs) ==
    \A i, j \in 1..Len(regs) : regs[i].name = regs[j].name => i = j

\* every check the registry holds was awaited once, and has its result
EachAwaitedOnce ==
    /\ health.awaited = [i \in 1..Len(checks) |-> checks[i].name]
    /\ \A i, j \in 1..Len(checks) : checks[i].name = checks[j].name => i = j
    /\ DOMAIN health.results = {checks[i].name : i \in 1..Len(checks)}
    /\ \A i \in 1..Len(checks) :
          LET out == await_check(checks[i].check_func) IN
          health.results[checks[i].name] =
              IF out.raised = "none" THEN out.result
              ELSE [status |-> DOWN, error |-> out.result.error]

\* C29 as stated: check_health never raises, awaits every check that was
\* registered once, reports the status the rule gives for all of them, and
\* registering the same checks in another order gives the same status.
C29_Original ==
    HealthDone =>
        /\ health.pc = "returned"
        /\ \A i \in 1..Len(regLog) :
              Count(health.awaited, regLog[i].name) = 1
        /\ health.response.status =
              RuleStatus({regLog[i].check_func : i \in 1..Len(regLog)})
        /\ \A q \in Perms(Len(regLog)) :
              RuleOutcome(Registry(Reordered(regLog, q), Len(regLog))) = HealthOutcome

\* C29: check_health raises only when a check raises something that is not
\* an Exception; otherwise it awaits once each check the registry holds (the
\* latest one registered under each name), records a raising check as down
\* with its error, and reports down if one of them returned down or raised,
\* else degraded if one returned degraded, else up (up for an empty
\* registry); registering checks of distinct names in another order gives
\* the same outcome.
C29_CheckHealth ==
    HealthDone =>
        /\ checks = Registry(regLog, Len(regLog))
        /\ HealthOutcome = RuleOutcome(checks)
        /\ health.pc = "returned" => EachAwaitedOnce
        /\ DistinctNames(regLog) =>
              \A q \in Perms(Len(regLog)) :
                 RuleOutcome(Registry(Reordered(regLog, q), Len(regLog))) = HealthOutcome

\* a down check, then a degraded one under another name, and the reverse
C29_Witness ==
    /\ health.pc = "returned"
    /\ Len(checks) = 2
    /\ checks[1].check_func = "raises_Exception"
    /\ checks[2].check_func = "returns_degraded"
    /\ health.response.status = DOWN

C29_WitnessEmpty ==
    health.pc = "returned" /\ checks = <<>> /\ health.response.status = UP

-----------------------------------------------------------------------------
(* The polling loop                                                        *)

LastPollOk == \A srv \in Services : poll.services_health[srv] \in {"healthy", "none"}
LastPollUnhealthy == \E srv \in Services : poll.services_health[srv] = "unhealthy"
Polled == poll.polls' = poll.polls + 1

\* C30: the run ends with success only after a poll in which every service
\* was healthy or none; a poll that finds a service unhealthy ends the run
\* with failure at once; a poll that finds neither goes on to sleep and to
\* the next test of the timeout; a run that ends otherwise ends with failure,
\* by timeout only when the time has elapsed with no successful poll; and
\* the run does end.
C30_PollingLoop ==
    /\ [](poll.exit_code = "0" => poll.polls > 0 /\ LastPollOk /\ poll.all_healthy)
    /\ [][Polled =>
            /\ LastPollOk' => poll'.pc = "after" /\ poll'.all_healthy
            /\ LastPollUnhealthy' => poll'.pc = "exit" /\ poll'.exit_code = "1"
            /\ (~LastPollOk' /\ ~LastPollUnhealthy') =>
                    /\ poll'.pc = "sleep"
                    /\ poll'.exit_code = "running"
                    /\ ~poll'.all_healthy]_vars
    /\ [][(poll.pc = "sleep" /\ poll' # poll) =>
                poll'.pc = "loop" \/ poll'.exit_code = "130"]_vars
    /\ [](poll.exit_code = "1" =>
            \/ poll.polls > 0 /\ LastPollUnhealthy
            \/ poll.elapsed >= poll.timeout /\ ~poll.all_healthy)
    /\ []((poll.pc = "after" /\ ~poll.all_healthy) => poll.elapsed >= poll.timeout)
    /\ (poll.pc = "loop" ~> poll.pc = "exit")

\* a poll found a service starting, the next one found all healthy or none
C30_Witness ==
    /\ poll.exit_code = "0"
    /\ poll.polls = 2
    /\ poll.services_health["db"] = "none"

\* the timeout elapsed while a service was still starting
C30_WitnessTimeout ==
    /\ poll.exit_code = "1"
    /\ poll.polls > 0
    /\ poll.services_health["api"] = "starting"

====
